---- MODULE Spec2Model ----
(***************************************************************************)
(* A model of the Redis output of libbeat (outputs/redis): the bounded     *)
(* sending queue, the sending goroutine with its two flush policies, the   *)
(* reconnect loop, and the topology map with its publish/refresh protocol. *)
(*                                                                         *)
(* The redigo connection (Send / Do / Flush / Receive / DialTimeout) and   *)
(* the Redis server are the environment: each call on a handle either      *)
(* succeeds or fails, a failed call leaves the handle broken (redigo       *)
(* records a fatal error and every later call on it fails).                *)
(***************************************************************************)
EXTENDS Integers, Sequences, FiniteSets, TLC

\* ------------------------------------------------------------------ bounds

\* Number of events handed to PublishEvent in one run.
MaxMsgs == 3

\* Capacity of sendingQueue; the code makes the channel with 1000 slots.
QueueCap == 2

\* Number of times the environment makes a call on a sound handle fail.
MaxFaults == 1

\* Seconds of a key's time to live that the model follows one by one.
MaxDecay == 1

\* The goroutines that call PublishEvent.
Producers == {"p1", "p2"}

\* out.FlushInterval when the configuration gives none (milliseconds).
DefaultFlushInterval == 1000

\* config.FlushInterval is a *int: absent, or a number of milliseconds.
FlushIntervalInputs ==
    { [set |-> FALSE, val |-> 0],
      [set |-> TRUE, val |-> -1],
      [set |-> TRUE, val |-> 0],
      [set |-> TRUE, val |-> DefaultFlushInterval] }

\* exp_sec when Init is given topology_expire = 0 (seconds).
DefaultTopologyExpire == 15

\* The topology_expire argument of Init: 0 (use the default) or a number of seconds.
TopologyExpireInputs == {0, 30}

\* The agent names published in the topology database.
Names == {"A", "B"}

\* IP addresses, as strings of characters; none holds a comma.
Addrs == { << "a" >>, << "b", "c" >> }

\* The localAddrs slices handed to PublishIPs.
LocalAddrsInputs ==
    { << >>, << <<"a">> >>, << <<"a">>, <<"b", "c">> >> }

\* The ip strings handed to GetNameByIP: the addresses, one that is published
\* by nobody, and the empty string.
LookupInputs == Addrs \cup { << "z" >>, << >> }

\* ------------------------------------------------------------------- state

VARIABLES
    flush_immediatelly, \* out.flush_immediatelly
    FlushInterval,      \* out.FlushInterval, milliseconds
    sendingQueue,       \* out.sendingQueue: the payloads buffered in the channel
    connected,          \* out.connected
    Conn,               \* out.Conn: 0 is the nil interface, r > 0 the handle dialed by invocation r
    connBuf,            \* payloads written by Send on the handle in Conn, not yet flushed
    connBroken,         \* the handle in Conn has recorded a fatal error
    connUnacked,        \* commands the server got on the handle in Conn whose replies are unread
    workerPc,           \* position of SendMessagesGoroutine
    queueMsg,           \* the message the goroutine holds (0: none)
    err,                \* the goroutine's err variable (TRUE: non-nil)
    pending,            \* the goroutine's pending counter
    recPc,              \* recPc[r]: position of the r-th invocation of Reconnect
    prodPc,             \* prodPc[p]: position of producer p inside PublishEvent
    prodMsg,            \* prodMsg[p]: the payload p is sending on the channel (0: none)
    nextMsg,            \* the next event handed to PublishEvent
    sink,               \* the payloads the Redis server received, in order
    enqLog,             \* history: the payloads in the order they entered the channel
    dropped,            \* history: the payloads dequeued while !out.connected
    rejected,           \* history: the events json.Marshal refused
    faults,             \* history: how many calls the environment made fail on a sound handle
    TopologyExpire,     \* out.TopologyExpire, seconds
    TopologyMap,        \* out.TopologyMap: ip string -> agent name
    registry,           \* the topology database: name -> [ipaddrs, ttl], for the keys that exist
    pubPc,              \* position of the goroutine calling PublishIPs
    pubName,            \* PublishIPs' name argument
    pubAddrs,           \* PublishIPs' localAddrs argument
    pubRet,             \* what the last PublishIPs returned
    hostnames,          \* UpdateLocalTopologyMap: the hostnames the loop has still to read
    TopologyMapTmp,     \* UpdateLocalTopologyMap's TopologyMapTmp
    readFailed,         \* history: the hostnames whose HGET failed in the current refresh
    readOk,             \* history: hostname -> the ipaddrs its HGET returned in the current refresh
    lookupRes           \* the ip and the result of the last GetNameByIP

cfgVars == << flush_immediatelly, FlushInterval >>
connVars == << Conn, connBuf, connBroken, connUnacked >>
workerVars == << workerPc, queueMsg, err, pending >>
prodVars == << prodPc, prodMsg, nextMsg, rejected >>

deliveryVars ==
    << cfgVars, sendingQueue, connected, connVars, workerVars, recPc, prodVars,
       sink, enqLog, dropped, faults >>

pubVars == << pubPc, pubName, pubAddrs, pubRet >>
refreshVars == << hostnames, TopologyMapTmp, readFailed, readOk >>

topologyVars ==
    << TopologyExpire, TopologyMap, registry, pubVars, refreshVars, lookupRes >>

vars == << deliveryVars, topologyVars >>

\* ----------------------------------------------------------------- helpers

Range(s) == { s[i] : i \in 1..Len(s) }

\* A panic in any goroutine ends the process.
Alive == workerPc /= "panic"

\* The invocations of Reconnect that have not returned.
InFlight == { r \in 1..Len(recPc) : recPc[r] /= "done" }

\* ------------------------------------------------------------------- Init

\* RedisOutput.Init up to its call of out.Reconnect(): the flush policy is read
\* from the configuration, the channel is made, the first Reconnect is running
\* and the sending goroutine is not started yet.
DeliveryInit ==
    /\ \E cfg \in FlushIntervalInputs :
          /\ flush_immediatelly = (cfg.set /\ cfg.val < 0)
          /\ FlushInterval = IF cfg.set /\ cfg.val >= 0 THEN cfg.val
                             ELSE DefaultFlushInterval
    /\ sendingQueue = << >>
    /\ connected = FALSE
    /\ Conn = 0
    /\ connBuf = << >>
    /\ connBroken = FALSE
    /\ connUnacked = 0
    /\ workerPc = "init"
    /\ queueMsg = 0
    /\ err = FALSE
    /\ pending = 0
    /\ recPc = << "connect" >>
    /\ prodPc = [p \in Producers |-> "idle"]
    /\ prodMsg = [p \in Producers |-> 0]
    /\ nextMsg = 1
    /\ sink = << >>
    /\ enqLog = << >>
    /\ dropped = {}
    /\ rejected = {}
    /\ faults = 0

\* A map with no entry (a nil Go map reads the same way).
EmptyMap == [a \in {} |-> ""]

\* ttl of a key that has no expiration set.
NoExpiry == -1

\* RedisOutput.Init's topology part: exp_sec is 15 unless topology_expire is
\* given; out.TopologyMap is left nil.  The topology database holds nothing.
TopologyInit ==
    /\ \E topology_expire \in TopologyExpireInputs :
          TopologyExpire = IF topology_expire /= 0 THEN topology_expire
                           ELSE DefaultTopologyExpire
    /\ TopologyMap = EmptyMap
    /\ registry = EmptyMap
    /\ pubPc = "idle"
    /\ pubName = ""
    /\ pubAddrs = << >>
    /\ pubRet = "none"
    /\ hostnames = << >>
    /\ TopologyMapTmp = EmptyMap
    /\ readFailed = {}
    /\ readOk = EmptyMap
    /\ lookupRes = [ip |-> << >>, name |-> ""]

Init == DeliveryInit /\ TopologyInit

\* ------------------------------------------------------- Reconnect, Connect

\* The handle a successful dial by invocation r yields.
NewHandle(r) == r

\* The steps of RedisConnect that can fail: DialTimeout, AUTH (when a password
\* is set), PING, SELECT db.
HandshakeSteps == {"dial", "auth", "ping", "select"}

\* What RedisConnect returns to Connect: nil when a step failed (a connection
\* already dialed is left behind, not returned), the handle otherwise.
RedisConnect(r, failedAt) == IF failedAt = "none" THEN NewHandle(r) ELSE 0

\* A reconnect that would write again what had been sent before.
ReplaySent(buf, sent) == sent

\* The unflushed payloads on what out.Conn holds after Connect's assignment:
\* a new handle has none, and those on the old handle are gone with it.
BufferAfterDial(buf, sent) == << >>

\* One turn of Reconnect's loop up to the test of err.  Connect's first
\* statement, out.Conn, err = out.RedisConnect(out.Db), assigns out.Conn whether
\* the dial and handshake succeed or not (the nil interface on failure).  On
\* failure Connect returns the error and Reconnect sleeps ReconnectInterval
\* before its next turn; the sleep touches no shared state.
Connect(r) ==
    /\ UNCHANGED topologyVars
    /\ Alive
    /\ r \in 1..Len(recPc)
    /\ recPc[r] = "connect"
    /\ Conn' \in { RedisConnect(r, failedAt) : failedAt \in HandshakeSteps \cup {"none"} }
    /\ recPc' = [recPc EXCEPT ![r] = IF Conn' = 0 THEN "connect" ELSE "setconnected"]
    /\ connBuf' = BufferAfterDial(connBuf, sink)
    /\ connBroken' = FALSE
    /\ connUnacked' = 0
    /\ UNCHANGED << cfgVars, sendingQueue, connected, workerVars, prodVars, sink,
                    enqLog, dropped, faults >>

\* Connect's out.connected = true; Connect returns nil and Reconnect breaks
\* out of its loop.
SetConnected(r) ==
    /\ UNCHANGED topologyVars
    /\ Alive
    /\ r \in 1..Len(recPc)
    /\ recPc[r] = "setconnected"
    /\ connected' = TRUE
    /\ recPc' = [recPc EXCEPT ![r] = "done"]
    /\ UNCHANGED << cfgVars, sendingQueue, connVars, workerVars, prodVars, sink,
                    enqLog, dropped, faults >>

\* ---------------------------------------------------- SendMessagesGoroutine

\* Init's go out.SendMessagesGoroutine(), once its own out.Reconnect() has
\* returned, and the goroutine's prologue: the ticker is made unless
\* flush_immediatelly (time.NewTicker panics on a non-positive interval).
WorkerStart ==
    /\ UNCHANGED topologyVars
    /\ workerPc = "init"
    /\ recPc[1] = "done"
    /\ workerPc' = IF ~flush_immediatelly /\ FlushInterval <= 0 THEN "panic"
                   ELSE "select"
    /\ UNCHANGED << cfgVars, sendingQueue, connected, connVars, queueMsg, err,
                    pending, recPc, prodVars, sink, enqLog, dropped, faults >>

\* A goroutine that would not look at out.connected.
DispositionAlwaysSend(isConnected) == "send"

\* What the goroutine does with a message it received: dropped while
\* !out.connected (continue), sent otherwise.
Disposition(isConnected) == IF isConnected THEN "send" ELSE "drop"

\* case queueMsg := <-out.sendingQueue, and the test of out.connected.
WorkerRecv ==
    /\ UNCHANGED topologyVars
    /\ workerPc = "select"
    /\ sendingQueue /= << >>
    /\ sendingQueue' = Tail(sendingQueue)
    /\ IF Disposition(connected) = "drop"
          THEN /\ dropped' = dropped \cup {Head(sendingQueue)}
               /\ UNCHANGED << workerPc, queueMsg >>
          ELSE /\ queueMsg' = Head(sendingQueue)
               /\ workerPc' = "send"
               /\ UNCHANGED dropped
    /\ UNCHANGED << cfgVars, connected, connVars, err, pending, recPc, prodVars,
                    sink, enqLog, faults >>

\* What a Send, Flush or Receive on the handle in out.Conn can return (TRUE: no
\* error): a broken handle fails every call, a sound one fails when the
\* environment makes it.
CallOutcomes ==
    IF connBroken THEN {FALSE}
    ELSE IF faults < MaxFaults THEN BOOLEAN ELSE {TRUE}

\* The same for Do, which can fail before or after the server got the command.
DoOutcomes ==
    IF connBroken THEN {"lost"}
    ELSE IF faults < MaxFaults THEN {"ok", "lost", "written"} ELSE {"ok"}

\* The fault count after a call on the handle in out.Conn.
Charge(failure) == IF failure /\ ~connBroken THEN faults + 1 ELSE faults

\* A goroutine that would send every message with Do.
NeverPipelined == FALSE

\* if !out.flush_immediatelly: the message goes out with Send, else with Do.
Pipelined == ~flush_immediatelly

\* out.Conn.Send(command, index, msg); pending += 1 -- the command is written
\* to the handle's buffer, or the write fails.
ConnSend ==
    /\ Pipelined
    /\ \E ok \in CallOutcomes :
          /\ connBuf' = IF ok THEN Append(connBuf, queueMsg) ELSE connBuf
          /\ connBroken' = ~ok
          /\ err' = ~ok
          /\ faults' = Charge(~ok)
    /\ pending' = pending + 1
    /\ UNCHANGED << sink, connUnacked >>

\* out.Conn.Do(command, index, msg): write, flush and read the replies.
ConnDo ==
    /\ ~Pipelined
    /\ \E res \in DoOutcomes :
          /\ sink' = IF res = "lost" THEN sink
                     ELSE sink \o connBuf \o << queueMsg >>
          /\ connBuf' = IF res = "lost" THEN connBuf ELSE << >>
          /\ connBroken' = (res /= "ok")
          /\ err' = (res /= "ok")
          /\ faults' = Charge(res /= "ok")
          /\ connUnacked' = IF res = "written" THEN connUnacked + Len(connBuf) + 1
                             ELSE IF res = "ok" THEN 0 ELSE connUnacked
    /\ UNCHANGED pending

\* The send of the message in hand, on whatever out.Conn holds now; a call on
\* the nil interface panics.
WorkerSend ==
    /\ UNCHANGED topologyVars
    /\ workerPc = "send"
    /\ IF Conn = 0
          THEN /\ workerPc' = "panic"
               /\ UNCHANGED << connBuf, connBroken, connUnacked, err, pending, sink,
                               faults, queueMsg >>
          ELSE /\ (ConnSend \/ ConnDo)
               /\ workerPc' = IF err' THEN "senderr" ELSE "select"
               /\ queueMsg' = 0
    /\ UNCHANGED << cfgVars, sendingQueue, connected, Conn, recPc, prodVars,
                    enqLog, dropped >>

\* if err != nil: out.connected = false; go out.Reconnect().
MarkAndReconnect ==
    /\ connected' = FALSE
    /\ recPc' = Append(recPc, "connect")

WorkerSendErr ==
    /\ UNCHANGED topologyVars
    /\ workerPc = "senderr"
    /\ MarkAndReconnect
    /\ workerPc' = "select"
    /\ UNCHANGED << cfgVars, sendingQueue, connVars, queueMsg, err, pending,
                    prodVars, sink, enqLog, dropped, faults >>

\* Where a tick sends the goroutine: to the flush only if pending > 0.
TickTarget(n) == IF n > 0 THEN "flush" ELSE "select"

\* case _ = <-flushChannel: only the ticker writes to flushChannel, and there is
\* a ticker only if !flush_immediatelly.
WorkerTick ==
    /\ UNCHANGED topologyVars
    /\ workerPc = "select"
    /\ ~flush_immediatelly
    /\ workerPc' = TickTarget(pending)
    /\ UNCHANGED << cfgVars, sendingQueue, connected, connVars, queueMsg, err,
                    pending, recPc, prodVars, sink, enqLog, dropped, faults >>

\* out.Conn.Flush(): the handle's buffer goes to the server, or the write
\* fails; the result is not looked at.
WorkerFlush ==
    /\ UNCHANGED topologyVars
    /\ workerPc = "flush"
    /\ IF Conn = 0
          THEN /\ workerPc' = "panic"
               /\ UNCHANGED << connBuf, connBroken, connUnacked, sink, faults >>
          ELSE /\ workerPc' = "receive"
               /\ \E ok \in CallOutcomes :
                     /\ sink' = IF ok THEN sink \o connBuf ELSE sink
                     /\ connUnacked' = IF ok THEN connUnacked + Len(connBuf)
                                        ELSE connUnacked
                     /\ connBuf' = IF ok THEN << >> ELSE connBuf
                     /\ connBroken' = ~ok
                     /\ faults' = Charge(~ok)
    /\ UNCHANGED << cfgVars, sendingQueue, connected, Conn, queueMsg, err, pending,
                    recPc, prodVars, enqLog, dropped >>

\* What Receive on the handle in out.Conn can return: with no reply
\* outstanding the read runs into the handle's read timeout (out.Timeout).
ReceiveOutcomes == IF connUnacked = 0 THEN {FALSE} ELSE CallOutcomes

\* _, err = out.Conn.Receive(): one reply is read, or the read fails.
WorkerReceive ==
    /\ UNCHANGED topologyVars
    /\ workerPc = "receive"
    /\ IF Conn = 0
          THEN /\ workerPc' = "panic"
               /\ UNCHANGED << connBroken, connUnacked, err, faults >>
          ELSE /\ workerPc' = "flushed"
               /\ \E ok \in ReceiveOutcomes :
                     /\ connBroken' = ~ok
                     /\ connUnacked' = IF ok THEN connUnacked - 1 ELSE connUnacked
                     /\ err' = ~ok
                     /\ faults' = IF connUnacked = 0 THEN faults ELSE Charge(~ok)
    /\ UNCHANGED << cfgVars, sendingQueue, connected, Conn, connBuf, queueMsg,
                    pending, recPc, prodVars, sink, enqLog, dropped >>

\* if err != nil { out.connected = false; go out.Reconnect() }; pending = 0.
WorkerFlushed ==
    /\ UNCHANGED topologyVars
    /\ workerPc = "flushed"
    /\ IF err THEN MarkAndReconnect ELSE UNCHANGED << connected, recPc >>
    /\ pending' = 0
    /\ workerPc' = "select"
    /\ UNCHANGED << cfgVars, sendingQueue, connVars, queueMsg, err, prodVars, sink,
                    enqLog, dropped, faults >>

\* ------------------------------------------------------------ PublishEvent

\* A PublishEvent that would put the event on the channel before it looks at
\* json.Marshal's error.
OnMarshalSend(q, m) == Append(q, m)

\* The channel after PublishEvent's json.Marshal and its test of err: nothing
\* is sent there, with or without an error.
OnMarshal(q, m) == q

\* json.Marshal(event): an event that cannot be marshalled makes PublishEvent
\* return the error; otherwise the caller goes on to the channel send.
PublishEventMarshal(p) ==
    /\ UNCHANGED topologyVars
    /\ Alive
    /\ workerPc /= "init"
    /\ prodPc[p] = "idle"
    /\ nextMsg <= MaxMsgs
    /\ nextMsg' = nextMsg + 1
    /\ \E ok \in BOOLEAN :
          IF ok
             THEN /\ prodMsg' = [prodMsg EXCEPT ![p] = nextMsg]
                  /\ prodPc' = [prodPc EXCEPT ![p] = "send"]
                  /\ UNCHANGED rejected
             ELSE /\ rejected' = rejected \cup {nextMsg}
                  /\ UNCHANGED << prodMsg, prodPc >>
    /\ sendingQueue' = OnMarshal(sendingQueue, nextMsg)
    /\ UNCHANGED << cfgVars, connected, connVars, workerVars, recPc, sink, enqLog,
                    dropped, faults >>

\* A channel that would hand out the newest message first.
EnqueueFront(q, m) == << m >> \o q

\* The channel after a send of m on it.
Enqueue(q, m) == Append(q, m)

\* A channel without a capacity: a send always proceeds.
ChanNeverFull(q) == TRUE

\* Whether a send on the channel can proceed.
ChanHasRoom(q) == Len(q) < QueueCap

\* out.sendingQueue <- RedisQueueMsg{...}: blocks while the channel is full;
\* then the message is at the tail and PublishEvent returns nil.
PublishEventEnqueue(p) ==
    /\ UNCHANGED topologyVars
    /\ Alive
    /\ prodPc[p] = "send"
    /\ ChanHasRoom(sendingQueue)
    /\ sendingQueue' = Enqueue(sendingQueue, prodMsg[p])
    /\ enqLog' = Append(enqLog, prodMsg[p])
    /\ prodMsg' = [prodMsg EXCEPT ![p] = 0]
    /\ prodPc' = [prodPc EXCEPT ![p] = "idle"]
    /\ UNCHANGED << cfgVars, connected, connVars, workerVars, recPc, nextMsg,
                    rejected, sink, dropped, faults >>

\* ---------------------------------------------------------------- the system

Worker ==
    \/ WorkerStart
    \/ WorkerRecv
    \/ WorkerSend
    \/ WorkerSendErr
    \/ WorkerTick
    \/ WorkerFlush
    \/ WorkerReceive
    \/ WorkerFlushed

Reconnect == \E r \in 1..Len(recPc) : Connect(r) \/ SetConnected(r)

PublishEvent == \E p \in Producers : PublishEventMarshal(p) \/ PublishEventEnqueue(p)

DeliveryNext == Worker \/ Reconnect \/ PublishEvent

\* ------------------------------------------------------- strings.Join, Split

RECURSIVE Join(_)
\* strings.Join(localAddrs, ","): the elements with a comma between neighbours.
Join(list) ==
    IF list = << >> THEN << >>
    ELSE IF Len(list) = 1 THEN list[1]
    ELSE list[1] \o << "," >> \o Join(Tail(list))

RECURSIVE SplitFrom(_, _)
\* The fields of s after the field begun as cur.
SplitFrom(s, cur) ==
    IF s = << >> THEN << cur >>
    ELSE IF Head(s) = "," THEN << cur >> \o SplitFrom(Tail(s), << >>)
    ELSE SplitFrom(Tail(s), Append(cur, Head(s)))

\* strings.Split(res, ","): the fields between the commas; one empty field for
\* the empty string.
Split(s) == SplitFrom(s, << >>)

\* ------------------------------------------------------ the topology database

\* The keys that exist.
Keys == DOMAIN registry

\* registry after HSET name "ipaddrs" value: a new key has no expiration, an
\* existing one keeps its own.
HSet(reg, name, value) ==
    [n \in DOMAIN reg \cup {name} |->
        IF n = name
           THEN [ipaddrs |-> value,
                 ttl |-> IF name \in DOMAIN reg THEN reg[name].ttl ELSE NoExpiry]
           ELSE reg[n]]

\* An EXPIRE that would leave a time to live already running as it is.
ExpireIfNone(reg, name, seconds) ==
    [n \in DOMAIN reg |->
        IF n = name /\ reg[n].ttl = NoExpiry THEN [reg[n] EXCEPT !.ttl = seconds]
        ELSE reg[n]]

\* registry after EXPIRE name seconds (nothing if the key does not exist).
Expire(reg, name, seconds) ==
    [n \in DOMAIN reg |-> IF n = name THEN [reg[n] EXCEPT !.ttl = seconds] ELSE reg[n]]

\* All the orders KEYS * can list the set S in.
RECURSIVE Orders(_)
Orders(S) ==
    IF S = {} THEN { << >> }
    ELSE UNION { { << x >> \o o : o \in Orders(S \ {x}) } : x \in S }

\* The time to live of a key runs out and the server deletes it.
KeyExpires(n) ==
    /\ n \in Keys
    /\ registry[n].ttl /= NoExpiry
    /\ registry' = [m \in Keys \ {n} |-> registry[m]]
    /\ UNCHANGED << deliveryVars, TopologyExpire, TopologyMap, pubVars, refreshVars,
                    lookupRes >>

\* One second passes on the server: the remaining time to live of every key
\* that has one goes down by one.  The model follows the first MaxDecay seconds
\* of a time to live; the rest of it passes in KeyExpires.
SecondPasses ==
    /\ \E n \in Keys : registry[n].ttl /= NoExpiry
    /\ \A n \in Keys :
          registry[n].ttl /= NoExpiry => registry[n].ttl > TopologyExpire - MaxDecay
    /\ registry' =
          [n \in Keys |->
              IF registry[n].ttl = NoExpiry THEN registry[n]
              ELSE [registry[n] EXCEPT !.ttl = @ - 1]]
    /\ UNCHANGED << deliveryVars, TopologyExpire, TopologyMap, pubVars, refreshVars,
                    lookupRes >>

\* ----------------------------------------------------------------- PublishIPs

\* A PublishIPs that would dial into out.Conn and leave it nil.
TopologyDialShared(c) == 0

\* out.Conn after conn, err := out.RedisConnect(out.DbTopology): the handle goes
\* to PublishIPs' own local, out.Conn is not assigned.
ConnAfterTopologyDial(c) == c

\* PublishIPs(name, localAddrs) up to the test of RedisConnect's error: the
\* call returns the error, or goes on with an open connection.
PublishIPsConnect(name, localAddrs) ==
    /\ Alive
    /\ pubPc = "idle"
    /\ \E ok \in BOOLEAN :
          IF ok
             THEN /\ pubPc' = "hset"
                  /\ pubName' = name
                  /\ pubAddrs' = localAddrs
                  /\ pubRet' = "none"
             ELSE /\ pubRet' = "err"
                  /\ UNCHANGED << pubPc, pubName, pubAddrs >>
    /\ Conn' = ConnAfterTopologyDial(Conn)
    /\ UNCHANGED << cfgVars, sendingQueue, connected, connBuf, connBroken, connUnacked,
                    workerVars, recPc, prodVars, sink, enqLog, dropped, faults >>
    /\ UNCHANGED << TopologyExpire, TopologyMap, registry, refreshVars, lookupRes >>

\* PublishIPs returns ret; the deferred conn.Close() runs.
PublishIPsReturn(ret) ==
    /\ pubPc' = "idle"
    /\ pubName' = ""
    /\ pubAddrs' = << >>
    /\ pubRet' = ret

\* conn.Do("HSET", name, "ipaddrs", strings.Join(localAddrs, ",")).
PublishIPsHSet ==
    /\ Alive
    /\ pubPc = "hset"
    /\ \E ok \in BOOLEAN :
          IF ok
             THEN /\ registry' = HSet(registry, pubName, Join(pubAddrs))
                  /\ pubPc' = "expire"
                  /\ UNCHANGED << pubName, pubAddrs, pubRet >>
             ELSE /\ PublishIPsReturn("err")
                  /\ UNCHANGED registry
    /\ UNCHANGED << deliveryVars, TopologyExpire, TopologyMap, refreshVars, lookupRes >>

\* conn.Do("EXPIRE", name, int(out.TopologyExpire.Seconds())).
PublishIPsExpire ==
    /\ Alive
    /\ pubPc = "expire"
    /\ \E ok \in BOOLEAN :
          IF ok
             THEN /\ registry' = Expire(registry, pubName, TopologyExpire)
                  /\ pubPc' = "keys"
                  /\ UNCHANGED << pubName, pubAddrs, pubRet >>
             ELSE /\ PublishIPsReturn("err")
                  /\ UNCHANGED registry
    /\ UNCHANGED << deliveryVars, TopologyExpire, TopologyMap, refreshVars, lookupRes >>

\* ------------------------------------------------------ UpdateLocalTopologyMap

\* TopologyMapTmp := make(map); hostnames := KEYS *.  When KEYS fails the
\* function returns without touching out.TopologyMap, and PublishIPs returns nil.
UpdateKeys ==
    /\ Alive
    /\ pubPc = "keys"
    /\ TopologyMapTmp' = EmptyMap
    /\ readFailed' = {}
    /\ readOk' = EmptyMap
    /\ \E ok \in BOOLEAN :
          IF ok
             THEN /\ \E order \in Orders(Keys) : hostnames' = order
                  /\ pubPc' = "hget"
                  /\ UNCHANGED << pubName, pubAddrs, pubRet >>
             ELSE /\ hostnames' = << >>
                  /\ PublishIPsReturn("nil")
    /\ UNCHANGED << deliveryVars, TopologyExpire, TopologyMap, registry, lookupRes >>

RECURSIVE AddAll(_, _, _)
\* for _, addr := range ipaddrs { TopologyMapTmp[addr] = hostname }
AddAll(tmp, ipaddrs, hostname) ==
    IF ipaddrs = << >> THEN tmp
    ELSE AddAll((Head(ipaddrs) :> hostname) @@ tmp, Tail(ipaddrs), hostname)

\* A loop body that would enter the address list as one key.
ReadHostnameWhole(tmp, hostname, res) == (res :> hostname) @@ tmp

\* The body of the loop for one hostname whose HGET returned res.
ReadHostname(tmp, hostname, res) == AddAll(tmp, Split(res), hostname)

\* A loop body that would throw the map away on a failed HGET.
SkipHostnameReset(tmp, hostname) == EmptyMap

\* The body of the loop for one hostname whose HGET failed: logged, no entry.
SkipHostname(tmp, hostname) == tmp

\* A loop that would stop one hostname short.
LoopDoneEarly(todo) == Len(todo) <= 1

\* Whether the loop over hostnames is over.
LoopDone(todo) == todo = << >>

\* One turn of the loop: HGET hostname "ipaddrs" fails (always, if the key is
\* gone) or returns the key's address list.
UpdateHGet ==
    /\ Alive
    /\ pubPc = "hget"
    /\ ~LoopDone(hostnames)
    /\ LET hostname == Head(hostnames) IN
       \E ok \in (IF hostname \in Keys THEN BOOLEAN ELSE {FALSE}) :
          IF ok
             THEN /\ TopologyMapTmp' =
                        ReadHostname(TopologyMapTmp, hostname, registry[hostname].ipaddrs)
                  /\ readOk' = (hostname :> registry[hostname].ipaddrs) @@ readOk
                  /\ UNCHANGED readFailed
             ELSE /\ TopologyMapTmp' = SkipHostname(TopologyMapTmp, hostname)
                  /\ readFailed' = readFailed \cup {hostname}
                  /\ UNCHANGED readOk
    /\ hostnames' = Tail(hostnames)
    /\ UNCHANGED << deliveryVars, TopologyExpire, TopologyMap, registry, pubVars,
                    lookupRes >>

\* out.TopologyMap = TopologyMapTmp, after the loop.
UpdateSwap ==
    /\ Alive
    /\ pubPc = "hget"
    /\ LoopDone(hostnames)
    /\ TopologyMap' = TopologyMapTmp
    /\ pubPc' = "updated"
    /\ UNCHANGED << deliveryVars, TopologyExpire, registry, pubName, pubAddrs, pubRet,
                    refreshVars, lookupRes >>

\* UpdateLocalTopologyMap returns, its locals are gone; PublishIPs returns nil.
PublishIPsDone ==
    /\ Alive
    /\ pubPc = "updated"
    /\ PublishIPsReturn("nil")
    /\ hostnames' = << >>
    /\ TopologyMapTmp' = EmptyMap
    /\ readFailed' = {}
    /\ readOk' = EmptyMap
    /\ UNCHANGED << deliveryVars, TopologyExpire, TopologyMap, registry, lookupRes >>

\* ---------------------------------------------------------------- GetNameByIP

\* name, exists := m[ip]; "" when !exists.
NameByIP(m, ip) == IF ip \in DOMAIN m THEN m[ip] ELSE ""

GetNameByIP(ip) ==
    /\ Alive
    /\ lookupRes' = [ip |-> ip, name |-> NameByIP(TopologyMap, ip)]
    /\ UNCHANGED << deliveryVars, TopologyExpire, TopologyMap, registry, pubVars,
                    refreshVars >>

\* ---------------------------------------------------------------- the system

PublishIPs ==
    \/ \E name \in Names, localAddrs \in LocalAddrsInputs :
          PublishIPsConnect(name, localAddrs)
    \/ PublishIPsHSet
    \/ PublishIPsExpire
    \/ PublishIPsDone

UpdateLocalTopologyMap == UpdateKeys \/ UpdateHGet \/ UpdateSwap

TopologyNext ==
    \/ PublishIPs
    \/ UpdateLocalTopologyMap
    \/ \E ip \in LookupInputs : GetNameByIP(ip)
    \/ \E n \in Names : KeyExpires(n)
    \/ SecondPasses

Next == DeliveryNext \/ TopologyNext

\* The whole output.
Spec == Init /\ [][Next]_vars

\* The delivery path alone, with the topology part at rest.
DeliveryOnlyInit == DeliveryInit /\ TopologyInit /\ TopologyExpire = DefaultTopologyExpire

DeliverySpec == DeliveryOnlyInit /\ [][DeliveryNext]_vars

\* The topology part alone, with the delivery path at rest.
TopologyOnlyInit ==
    DeliveryInit /\ TopologyInit /\ ~flush_immediatelly
                 /\ FlushInterval = DefaultFlushInterval

TopologySpec == TopologyOnlyInit /\ [][TopologyNext]_vars

\* The delivery path in immediate mode: there is no ticker, so the goroutine
\* only receives and sends.
CoupledDelivery ==
    \/ WorkerStart
    \/ WorkerRecv
    \/ WorkerSend
    \/ WorkerSendErr
    \/ Reconnect
    \/ PublishEvent

\* The two parts side by side: the delivery path in immediate mode, and one
\* agent publishing one address and looking it up.
CoupledTopology ==
    \/ PublishIPsConnect("A", << << "a" >> >>)
    \/ PublishIPsHSet
    \/ PublishIPsExpire
    \/ PublishIPsDone
    \/ UpdateLocalTopologyMap
    \/ GetNameByIP(<< "a" >>)

CoupledInit ==
    /\ DeliveryInit
    /\ TopologyInit
    /\ flush_immediatelly = TRUE
    /\ TopologyExpire = DefaultTopologyExpire

CoupledSpec == CoupledInit /\ [][CoupledDelivery \/ CoupledTopology]_vars

\* The delivery path under fair scheduling: every goroutine that can take a
\* step eventually takes one, and the server eventually accepts a dial that
\* keeps being tried.
DeliveryFairSpec ==
    /\ DeliverySpec
    /\ WF_vars(Worker)
    /\ WF_vars(PublishEvent)
    /\ WF_vars(\E r \in 1..Len(recPc) : SetConnected(r))
    /\ WF_vars(\E r \in 1..Len(recPc) : Connect(r) /\ Conn' = NewHandle(r))

\* The delivery path under fair scheduling of the goroutine and of the
\* producers only: the server may refuse every dial from some moment on.
OutageFairSpec ==
    /\ DeliverySpec
    /\ WF_vars(Worker)
    /\ WF_vars(PublishEvent)

\* ================================================================ properties

\* The message in the sending goroutine's hand, as a sequence.
InHand == IF queueMsg = 0 THEN << >> ELSE << queueMsg >>

\* The positions of the goroutine inside the flush-tick branch.
FlushPcs == {"flush", "receive", "flushed"}

\* C1: while no send or flush has failed, the payloads the server received,
\* then those buffered on the handle, then the one in the goroutine's hand, then
\* those in the channel are exactly the payloads in the order PublishEvent put
\* them on the channel -- in immediate and in batched mode.
C1_FifoWhileHealthy ==
    faults = 0 => sink \o connBuf \o InHand \o sendingQueue = enqLog

\* C1 witness: batched mode, no failure, the server has received two payloads
\* that entered the channel in the opposite order of their PublishEvent calls.
C1_Witness ==
    /\ faults = 0
    /\ ~flush_immediatelly
    /\ Len(sink) >= 2
    /\ sink[1] > sink[2]

\* C2: the channel never holds more than QueueCap messages; a producer whose
\* send finds the channel full is still in its send, with its message, after
\* any step; a producer leaves its send only by putting its message at the tail
\* of a channel that had room; and no marshalled event is lost before it is on
\* the channel.
C2_Backpressure ==
    /\ [](Len(sendingQueue) <= QueueCap)
    /\ [](\A m \in 1..(nextMsg - 1) :
             \/ m \in rejected
             \/ m \in Range(enqLog)
             \/ \E p \in Producers : prodPc[p] = "send" /\ prodMsg[p] = m)
    /\ [][\A p \in Producers :
             (prodPc[p] = "send" /\ Len(sendingQueue) = QueueCap)
                => /\ prodPc'[p] = "send"
                   /\ prodMsg'[p] = prodMsg[p]
                   /\ prodMsg[p] \notin Range(sendingQueue')]_vars
    /\ [][\A p \in Producers :
             (prodPc[p] = "send" /\ prodPc'[p] /= "send")
                => /\ Len(sendingQueue) < QueueCap
                   /\ sendingQueue' = Append(sendingQueue, prodMsg[p])]_vars

\* C2 witness: the channel is full again after the goroutine has received from
\* it, and the message at its tail was marshalled before the one at its head:
\* its producer waited in its send and was let in at the tail.
C2_Witness ==
    /\ Len(sendingQueue) = QueueCap
    /\ Len(enqLog) > QueueCap
    /\ sendingQueue[QueueCap] < sendingQueue[1]

\* C3 (as claimed): once an invocation of Reconnect has returned and left
\* out.connected true with its handle in out.Conn, no other invocation
\* replaces that handle.
C3_HealthyHandleNotReplaced ==
    [][(connected /\ Conn /= 0 /\ recPc[Conn] = "done") => Conn' = Conn]_vars

\* C4 (as claimed): after a failed send or flush the reconnection ends with a
\* handle published, out.connected true and no invocation of Reconnect left
\* running, the sending goroutine being alive to deliver again.
C4_RecoversAfterFailure ==
    [](faults > 0 => <>(connected /\ Conn /= 0 /\ InFlight = {} /\ Alive))

\* C5: a message received from the channel while !out.connected is dropped on
\* the spot -- not in the goroutine's hand, not counted in pending, not written
\* to the handle, not sent, not back on the channel -- and a dropped message is
\* never again in the channel, in the hand, on the handle or at the server.
C5_DroppedWhileUnhealthy ==
    /\ [](\A m \in dropped :
             /\ m \notin Range(sink)
             /\ m \notin Range(connBuf)
             /\ m \notin Range(sendingQueue)
             /\ m /= queueMsg)
    /\ [][(Len(sendingQueue') < Len(sendingQueue) /\ ~connected)
             => /\ dropped' = dropped \cup {Head(sendingQueue)}
                /\ sendingQueue' = Tail(sendingQueue)
                /\ workerPc' = "select"
                /\ queueMsg' = 0
                /\ pending' = pending
                /\ connBuf' = connBuf
                /\ sink' = sink]_vars

\* C5 witness: a message was dropped, and after that the connection is healthy
\* again and the server has received a later message.
C5_Witness ==
    /\ dropped /= {}
    /\ connected
    /\ \E i \in 1..Len(sink) : \E m \in dropped : sink[i] > m

\* C6 (as claimed): the goroutine is in the flush branch only with pending > 0,
\* and whenever it leaves the branch pending is 0 and, if the flush failed,
\* out.connected is false and one more Reconnect is running.
C6_FlushTick ==
    /\ [](workerPc \in FlushPcs => pending > 0)
    /\ [][(workerPc \in FlushPcs /\ workerPc' \notin FlushPcs)
             => /\ pending' = 0
                /\ err => (~connected' /\ Len(recPc') = Len(recPc) + 1)
                /\ ~err => (connected' = connected /\ recPc' = recPc
                               /\ connUnacked' = 0)]_vars

\* C7: in immediate mode nothing is ever pending or buffered, the flush branch
\* is never entered, and the server receives each payload alone, in the send
\* of the message in hand.  In batched mode with no failure the payloads
\* written since the last tick are exactly pending many, the server receives
\* payloads only in a flush, and one flush carries all of them.
C7_FlushPolicy ==
    /\ [](flush_immediatelly
             => pending = 0 /\ connBuf = << >> /\ workerPc \notin FlushPcs)
    /\ []((~flush_immediatelly /\ faults = 0 /\ workerPc \in {"select", "send", "flush"})
             => Len(connBuf) = pending)
    /\ [][(flush_immediatelly /\ sink' /= sink)
             => workerPc = "send" /\ sink' = Append(sink, queueMsg)]_vars
    /\ [][(~flush_immediatelly /\ sink' /= sink /\ faults' = 0)
             => /\ workerPc = "flush"
                /\ Len(connBuf) = pending
                /\ sink' = sink \o connBuf
                /\ connBuf' = << >>]_vars

\* C7 witness: batched mode, no failure, one flush has just carried two payloads.
C7_Witness ==
    /\ ~flush_immediatelly
    /\ faults = 0
    /\ workerPc = "receive"
    /\ pending = 2
    /\ Len(sink) = 2
    /\ connBuf = << >>

\* Whether a is one of the comma-separated fields of the string s.
IsField(a, s) ==
    /\ "," \notin Range(a)
    /\ \E i \in 1..(Len(s) + 1) :
          /\ i + Len(a) - 1 <= Len(s)
          /\ SubSeq(s, i, i + Len(a) - 1) = a
          /\ (i = 1 \/ s[i - 1] = ",")
          /\ (i + Len(a) - 1 = Len(s) \/ s[i + Len(a)] = ",")

\* C8: out.TopologyMap changes only in one step, at the end of a refresh whose
\* loop has read every hostname it listed, and then to the map that refresh
\* built; so what GetNameByIP returns is read from the map current before a
\* refresh or from the complete map it built.
C8_MapReplacedWhole ==
    /\ [][TopologyMap' /= TopologyMap
             => /\ pubPc = "hget"
                /\ hostnames = << >>
                /\ TopologyMap' = TopologyMapTmp]_vars
    /\ [][lookupRes' /= lookupRes
             => lookupRes'.name = NameByIP(TopologyMap, lookupRes'.ip)]_vars

\* C8 witness: a refresh is half way -- it has built entries, with a hostname
\* still to read -- and GetNameByIP has returned, for an ip the half-built map
\* gives to another name, the name of the current map.
C8_Witness ==
    /\ pubPc = "hget"
    /\ hostnames /= << >>
    /\ lookupRes.name /= ""
    /\ lookupRes.name = NameByIP(TopologyMap, lookupRes.ip)
    /\ NameByIP(TopologyMapTmp, lookupRes.ip) \notin {"", lookupRes.name}

\* The refresh just installed read every key of the database, and the
\* database still holds what it read.
ReadEverything ==
    /\ pubPc = "updated"
    /\ readFailed = {}
    /\ DOMAIN readOk = Keys
    /\ \A h \in Keys : registry[h].ipaddrs = readOk[h]

\* C9: after a refresh that read every identity, GetNameByIP(ip) is a name
\* whose address list in the database has the field ip, and is "" only if no
\* name's list has it.
C9_MapInvertsRegistry ==
    ReadEverything =>
        \A ip \in LookupInputs :
            LET name == NameByIP(TopologyMap, ip) IN
            /\ name /= "" => (name \in Keys /\ IsField(ip, registry[name].ipaddrs))
            /\ name = "" => \A h \in Keys : ~IsField(ip, registry[h].ipaddrs)

\* C9 witness: such a refresh has replaced a map that gave "bc" a name by one
\* that does not, and the new map gives "a" a name.
C9_Witness ==
    /\ ReadEverything
    /\ NameByIP(TopologyMap, << "a" >>) /= ""
    /\ NameByIP(TopologyMap, << "b", "c" >>) = ""
    /\ lookupRes.ip = << "b", "c" >>
    /\ lookupRes.name /= ""
    /\ Cardinality(Keys) = 2

\* C10: a refresh in which the read of some hostnames failed still installs
\* the map it built; that map has an entry for every address in the list of
\* every hostname whose read succeeded, and no entry naming a hostname whose
\* read failed.
C10_PartialRefresh ==
    (pubPc = "updated" /\ readFailed /= {}) =>
        /\ TopologyMap = TopologyMapTmp
        /\ \A a \in DOMAIN TopologyMap :
               TopologyMap[a] \in DOMAIN readOk /\ TopologyMap[a] \notin readFailed
        /\ \A h \in DOMAIN readOk : \A a \in LookupInputs :
               IsField(a, readOk[h]) => a \in DOMAIN TopologyMap

\* C10 witness: a refresh read one hostname, failed to read the other, and
\* installed a map with the first one's addresses.
C10_Witness ==
    /\ pubPc = "updated"
    /\ readFailed /= {}
    /\ DOMAIN readOk /= {}
    /\ Cardinality(DOMAIN TopologyMap) = 2

\* The steps of one PublishIPs call, as moves of its position: open the
\* connection, HSET, EXPIRE, KEYS, the HGET loop and the swap, return (the
\* deferred Close); an error returns from where it happened.
PublishOrder ==
    { << "idle", "hset" >>, << "hset", "expire" >>, << "expire", "keys" >>,
      << "keys", "hget" >>, << "hget", "updated" >>, << "updated", "idle" >>,
      << "hset", "idle" >>, << "expire", "idle" >>, << "keys", "idle" >> }

C12_MarshalErrorIsolated ==
    /\ [][rejected' /= rejected
             => /\ \E m \in 1..MaxMsgs : m \notin rejected /\ rejected' = rejected \cup {m}
                /\ UNCHANGED << sendingQueue, enqLog, connected, connVars, workerVars,
                                recPc, sink, dropped, faults, prodPc, prodMsg >>]_vars
    /\ [](LET entered == Range(enqLog)
              inSend == { prodMsg[p] : p \in { q \in Producers : prodPc[q] = "send" } }
              held == { prodMsg[p] : p \in Producers }
              onWay == Range(sink) \cup Range(connBuf) \cup Range(sendingQueue) \cup {queueMsg}
          IN  /\ rejected \cap (entered \cup held \cup onWay) = {}
              /\ (1..(nextMsg - 1)) \ rejected \subseteq entered \cup inSend
              /\ faults = 0 => entered \subseteq onWay)

\* C12 witness: an event was refused, and an event published after it has
\* reached the server.
C12_Witness ==
    /\ rejected /= {}
    /\ faults = 0
    /\ \E i \in 1..Len(sink) : \E m \in rejected : sink[i] > m

\* C13 (as claimed): once Init has returned, a PublishEvent that is in its
\* channel send completes, also when no dial succeeds any more.
C13_BlockedSendCompletes ==
    \A p \in Producers : (prodPc[p] = "send") ~> (prodPc[p] = "idle")

\* The events that entered the channel and can no longer reach the server:
\* they are not at the server, not on the handle, not in the goroutine's hand
\* and not on the channel.
Undeliverable ==
    { m \in Range(enqLog) :
        /\ m \notin Range(sink) \cup Range(connBuf) \cup Range(sendingQueue)
        /\ m /= queueMsg }

\* C14 (as claimed): the sending goroutine never panics, and never more
\* events than the channel has slots are accepted and lost.
C14_BoundedLossNoTermination ==
    /\ Alive
    /\ Cardinality(Undeliverable) <= QueueCap

\* The step the goroutine in PublishIPs takes next can be taken.
TopologyStepEnabled ==
    /\ pubPc = "idle" => ENABLED PublishIPsConnect("A", << << "a" >> >>)
    /\ pubPc = "hset" => ENABLED PublishIPsHSet
    /\ pubPc = "expire" => ENABLED PublishIPsExpire
    /\ pubPc \in {"keys", "hget"} => ENABLED UpdateLocalTopologyMap
    /\ pubPc = "updated" => ENABLED PublishIPsDone
    /\ ENABLED GetNameByIP(<< "a" >>)

\* C15: no step of PublishIPs, UpdateLocalTopologyMap or GetNameByIP, failed or
\* not, changes the channel, out.Conn, the handle in it, out.connected or
\* anything else of the delivery path; no step of the delivery path changes
\* the topology map, the database or the position of PublishIPs; and while
\* the process lives the next step of a topology operation can always be
\* taken, with the channel full or not and out.connected true or false.
C15_TopologyIndependent ==
    /\ [][topologyVars' /= topologyVars => UNCHANGED deliveryVars]_vars
    /\ [][deliveryVars' /= deliveryVars => UNCHANGED topologyVars]_vars
    /\ [](Alive => TopologyStepEnabled)

\* C15 witness: PublishIPs has run to its end and the lookup finds the name,
\* with the channel full and out.connected false after a failed Do.
C15_Witness ==
    /\ pubRet = "nil"
    /\ lookupRes.name = "A"
    /\ Len(sendingQueue) = QueueCap
    /\ ~connected
    /\ faults > 0

\* C16 (as claimed): a turn of Reconnect's loop whose Connect failed, at
\* whatever step, leaves out.connected false and no handle in out.Conn.
C16_FailedConnectDisconnected ==
    [][\A r \in 1..Len(recPc) :
          (Connect(r) /\ recPc'[r] = "connect") => (~connected' /\ Conn' = 0)]_vars

\* C17 (as claimed): at most one invocation of Reconnect has not returned.
C17_SingleFlight == Cardinality(InFlight) <= 1

\* A sequence without a repeated element.
NoDup(q) == Cardinality(Range(q)) = Len(q)

\* The messages the goroutine has received from the channel.
Consumed == Range(enqLog) \ Range(sendingQueue)

\* C18: every message enters the channel once and leaves it once, by the
\* goroutine's receive at the head, never to be on it again; a payload is in
\* at most one place among the server, the handle's buffer, the goroutine's
\* hand and the channel, and at the server at most once -- with or without
\* reconnects, nothing sent, buffered or dropped earlier is sent again.
C18_AtMostOnce ==
    /\ [](NoDup(enqLog))
    /\ [](NoDup(sink \o connBuf \o InHand \o sendingQueue))
    /\ [](dropped \cap Range(sink \o connBuf \o InHand \o sendingQueue) = {})
    /\ [][sendingQueue' /= sendingQueue => Consumed \subseteq Consumed']_vars
    /\ [][Len(sendingQueue') < Len(sendingQueue)
             => sendingQueue' = Tail(sendingQueue)]_vars
    /\ [][sink' /= sink
             => Len(sink') > Len(sink) /\ SubSeq(sink', 1, Len(sink)) = sink]_vars

\* C18 witness: after a failure that lost one message and a completed
\* reconnect, a later message is at the server, and the lost one is not.
C18_Witness ==
    /\ faults > 0
    /\ Len(recPc) >= 2
    /\ InFlight = {}
    /\ connected
    /\ \E m \in Undeliverable : \E i \in 1..Len(sink) : sink[i] > m

\* C19 (as claimed): out.connected implies that out.Conn holds the handle of
\* a completed handshake, and the goroutine never calls Send, Do, Flush or
\* Receive on a nil out.Conn.
C19_HealthyHasHandle ==
    /\ connected => (Conn /= 0 /\ recPc[Conn] \in {"setconnected", "done"})
    /\ workerPc /= "panic"

\* C20 (as claimed): in batched mode, outside the flush itself, pending is
\* the number of payloads buffered on the handle in out.Conn, and the
\* goroutine waits in Receive only on a handle with a reply outstanding.
C20_PendingCountsBuffered ==
    /\ (~flush_immediatelly /\ workerPc \in {"select", "send", "senderr", "flush"})
          => pending = Len(connBuf)
    /\ (workerPc = "receive" /\ Conn /= 0) => connUnacked > 0

====
